---- MODULE Spec2Model ----
(***************************************************************************)
(* State machine of src/App.tsx: the App component's state (the useState   *)
(* cells), the asynchronous handlers in flight (initialize, generation     *)
(* runs, save, delete, import), the durable project store they talk to,    *)
(* and the files export has written.  One action per handler invocation    *)
(* and per resumption of a handler after an await.                         *)
(*                                                                         *)
(* Strings are modelled by naturals: EmptyStr is '', any other natural is  *)
(* a non-empty string.  The loadingMessage cell is not modelled: it is     *)
(* written by handleGenerateVideo only and read by the Loader only.        *)
(***************************************************************************)
EXTENDS Integers, Sequences, FiniteSets, TLC

\* ------------------------------------------------------------- bounds
\* handleGenerateVideo invocations in a behaviour
MaxRuns == 2
\* length of the scene list analyzeScriptForScenes returns
MaxScenes == 1
\* handleSaveProject invocations
MaxSaves == 1
\* handleDeleteProject invocations
MaxDeletes == 1
\* handleImportProject invocations
MaxImports == 1
\* Date.now() ranges over 0..MaxClock, never running backwards
MaxClock == 0
\* Math.floor(Math.random() * 1000) ranges over 0..MaxRand (0..999 in the code)
MaxRand == 1
\* handler calls (generate, save, delete, import) in flight at the same time
MaxInFlight == 2
\* handler calls (generate, save, import, and delete with the store ready) in a
\* behaviour
MaxCalls == 2
\* length of the scene list in the specification of the generation runs alone
MaxFanOut == 2
\* handler calls in the specification of generate, load and save alone
MaxResultCalls == 3

\* ------------------------------------------------------------- values
EmptyStr == 0
\* a field absent from a parsed JSON object (undefined)
Missing == -1
\* the one non-empty string an external project file carries in a field
FileStr == 9

NoUrl == [tag |-> "", p |-> 0]
\* URL.createObjectURL of a blob holding audio payload p
BlobUrl(p) == [tag |-> "blob", p |-> p]

\* audioUtils.blobUrlToBase64: the base64 text of the blob's bytes
blobUrlToBase64(url) == [enc |-> "base64", p |-> url.p]
\* atob() throws on text that is not base64
base64Decodes(a) == a.enc = "base64"
\* audioUtils.base64ToBlobUrl: a fresh blob URL over the decoded bytes
base64ToBlobUrl(a) == BlobUrl(a.p)

NoAudioData == [enc |-> "undefined", p |-> 0]
GarbageAudioData == [enc |-> "garbage", p |-> 0]

\* JavaScript truthiness of a string-or-undefined value
Truthy(s) == s # Missing /\ s # EmptyStr
TruthyAudioData(a) == a.enc \notin {"undefined", ""}
\* x || ''
OrEmpty(s) == IF Truthy(s) THEN s ELSE EmptyStr

\* ---- what the generation service returns to run r
ScriptTitle(r) == r
ScriptHashtags(r) == r
\* analyzeScriptForScenes: n scenes, described 10r+1 .. 10r+n
SceneDescription(r, i) == 10 * r + i
\* generateImageForScene(description): the image made for that description
ImageFor(d) == 100 + d
\* the audio payload generateVoiceover returns for run r's script
VoicePayload(r) == r

ErrorMessages == {"", "rate limited"}

UnknownError == "An unknown error occurred."
InitError == "Could not load saved projects. Please refresh the page."
SaveError == "Could not save the project. Please try again."
LoadError == "Could not load project. The data might be corrupted."
DeleteError == "Could not delete the project. Please try again."
ImportReadError == "Failed to read the project file."
ImportSyntaxError == "Could not import project: Unexpected token"
ImportInvalid == "Could not import project: Invalid project file. It's missing topic, scenes, or audio data."
ImportPutError == "Could not import project: put failed"

VARIABLES
  appState, errorMessage, scenes, audioUrl, currentTopic, title, hashtags,
  projects, dbReady,
  db,        \* the durable store: a set of SavedProject records, one per id
  init,      \* the initialize() call of the mount effect
  runs,      \* the handleGenerateVideo calls, in invocation order
  saves,     \* the handleSaveProject calls past the precondition
  deletes,   \* the handleDeleteProject calls past the precondition
  imports,   \* the handleImportProject calls
  saveCalls,   \* how often handleSaveProject was invoked
  deleteCalls, \* how often handleDeleteProject was invoked
  now,       \* the last value Date.now() returned
  downloads  \* the texts of the files handleExportProject has written

result == <<scenes, audioUrl, currentTopic, title, hashtags>>
ui == <<appState, errorMessage>>
ops == <<init, runs, saves, deletes, imports>>
vars == <<appState, errorMessage, scenes, audioUrl, currentTopic, title, hashtags,
          projects, dbReady, db, init, runs, saves, deletes, imports,
          saveCalls, deleteCalls, now, downloads>>


\* ------------------------------------------------------------- records
Scene(d, u) == [sceneDescription |-> d, imageUrl |-> u]

SavedProject(id, topic, sc, audioData, ti, ha) ==
  [id |-> id, topic |-> topic, scenes |-> sc, audioData |-> audioData,
   title |-> ti, hashtags |-> ha]

NoProject == SavedProject(Missing, EmptyStr, <<>>, NoAudioData, EmptyStr, EmptyStr)

\* a record left in the store by an earlier session, saved long before this one
OldProject ==
  SavedProject(-100, FileStr, <<Scene(91, 191)>>, [enc |-> "base64", p |-> 9],
               FileStr, FileStr)

InitialStores == {{}, {OldProject}}

\* the text of a project file, as JSON.parse reads it
File(parses, topic, hasScenes, sc, audioData, ti, ha) ==
  [parses |-> parses, topic |-> topic, hasScenes |-> hasScenes, scenes |-> sc,
   audioData |-> audioData, title |-> ti, hashtags |-> ha]

FileAudio == [enc |-> "base64", p |-> 8]
FileScenes == <<Scene(81, 181)>>

GoodFile == File(TRUE, FileStr, TRUE, FileScenes, FileAudio, FileStr, FileStr)
BareFile == File(TRUE, FileStr, TRUE, FileScenes, FileAudio, Missing, Missing)
NoTopicFile == File(TRUE, Missing, TRUE, FileScenes, FileAudio, FileStr, FileStr)
EmptyTopicFile == File(TRUE, EmptyStr, TRUE, FileScenes, FileAudio, FileStr, FileStr)
NoScenesFile == File(TRUE, FileStr, FALSE, <<>>, FileAudio, FileStr, FileStr)
NoAudioFile == File(TRUE, FileStr, TRUE, FileScenes, NoAudioData, FileStr, FileStr)
EmptyScenesFile == File(TRUE, FileStr, TRUE, <<>>, FileAudio, FileStr, FileStr)
GarbageAudioFile == File(TRUE, FileStr, TRUE, FileScenes, GarbageAudioData, FileStr, FileStr)
NotJsonFile == File(FALSE, Missing, FALSE, <<>>, NoAudioData, Missing, Missing)

ExternalFiles ==
  {GoodFile, BareFile, NoTopicFile, EmptyTopicFile, NoScenesFile, NoAudioFile,
   EmptyScenesFile, GarbageAudioFile, NotJsonFile}

\* ------------------------------------------------------------- the store
IdsOf(S) == {p.id : p \in S}
ListIds(l) == {l[i].id : i \in 1..Len(l)}

\* saveProjectToDB: upsert by id
StorePut(S, p) == {q \in S : q.id # p.id} \cup {p}
\* deleteProjectFromDB: remove by id, nothing if absent
StoreDelete(S, id) == {q \in S : q.id # id}

RECURSIVE SortById(_)
SortById(S) ==
  IF S = {} THEN <<>>
  ELSE LET m == CHOOSE p \in S : \A q \in S : p.id <= q.id
       IN <<m>> \o SortById(S \ {m})
\* getProjectsFromDB: every record, in key order
StoreList(S) == SortById(S)

\* initDB has completed successfully
StoreOpen == init.pc \in {"getProjects", "done", "listFailed"}

\* ------------------------------------------------------------- Init
Init ==
  /\ appState = "idle"
  /\ errorMessage = ""
  /\ scenes = <<>>
  /\ audioUrl = NoUrl
  /\ currentTopic = EmptyStr
  /\ title = EmptyStr
  /\ hashtags = EmptyStr
  /\ projects = <<>>
  /\ dbReady = FALSE
  /\ db \in InitialStores
  /\ init = [pc |-> "initDB"]
  /\ runs = <<>>
  /\ saves = <<>>
  /\ deletes = <<>>
  /\ imports = <<>>
  /\ saveCalls = 0
  /\ deleteCalls = 0
  /\ now = 0
  /\ downloads = {}

\* ------------------------------------------------------------- initialize
\* the catch block of initialize
initializeCatch(pc) ==
  /\ errorMessage' = InitError
  /\ appState' = "error"
  /\ init' = [pc |-> pc]

\* await initDB() resolves: setDbReady(true), getProjectsFromDB() is issued
initDBDone ==
  /\ init.pc = "initDB"
  /\ dbReady' = TRUE
  /\ init' = [pc |-> "getProjects"]
  /\ UNCHANGED <<ui, result, projects, downloads, db, runs, saves, deletes, imports,
                 saveCalls, deleteCalls, now>>

initDBFail ==
  /\ init.pc = "initDB"
  /\ initializeCatch("initFailed")
  /\ UNCHANGED <<result, projects, dbReady, downloads, db, runs, saves, deletes, imports,
                 saveCalls, deleteCalls, now>>

\* await getProjectsFromDB() resolves: setProjects(savedProjects)
getProjectsDone ==
  /\ init.pc = "getProjects"
  /\ projects' = StoreList(db)
  /\ init' = [pc |-> "done"]
  /\ UNCHANGED <<ui, result, dbReady, downloads, db, runs, saves, deletes, imports,
                 saveCalls, deleteCalls, now>>

getProjectsFail ==
  /\ init.pc = "getProjects"
  /\ initializeCatch("listFailed")
  /\ UNCHANGED <<result, projects, dbReady, downloads, db, runs, saves, deletes, imports,
                 saveCalls, deleteCalls, now>>


\* ------------------------------------------------------------- handleGenerateVideo
\* an image request that has not settled
Pending == 0

\* what a run leaves alone
persistence == <<projects, dbReady, downloads, db, init, saves, deletes, imports,
                 saveCalls, deleteCalls, now>>

RunIds == 1..Len(runs)
InFlight(r) == runs[r].pc \notin {"preview", "error"}
\* a save, delete or import call has returned: normally, or through its catch block
Returns == {"done", "failed"}
\* how many handler calls are waiting on an await
NumInFlight ==
  Cardinality({r \in RunIds : InFlight(r)})
  + Cardinality({k \in 1..Len(saves) : saves[k].pc \notin Returns})
  + Cardinality({k \in 1..Len(deletes) : deletes[k].pc \notin Returns})
  + Cardinality({k \in 1..Len(imports) : imports[k].pc \notin Returns})
\* how many handler calls there have been, a delete that returned at its
\* precondition not counted, the exports counted by the files they wrote
NumCalls ==
  Len(runs) + saveCalls + Len(deletes) + Len(imports) + Cardinality(downloads)
\* the user starts no further call while MaxInFlight are in flight, nor after MaxCalls
MayStart == NumInFlight < MaxInFlight /\ NumCalls < MaxCalls
\* the calls of each handler the user still makes
MayGenerate == Len(runs) < MaxRuns /\ MayStart
MaySave == saveCalls < MaxSaves /\ MayStart
MayDelete == deleteCalls < MaxDeletes /\ (dbReady => MayStart)
MayImport == Len(imports) < MaxImports /\ MayStart
MayExport == NumCalls < MaxCalls

\* a run that has returned keeps no locals but the error its catch block caught
Returned(pc, err) == [pc |-> pc, topic |-> EmptyStr, n |-> 0, imgs |-> <<>>, err |-> err]

\* the catch block shows the fallback text whatever was thrown
CaughtMessage_AlwaysUnknown(m) == UnknownError

\* line 92: error.message || 'An unknown error occurred.'
CaughtMessage(m) == IF m # "" THEN m ELSE UnknownError

\* the catch block of handleGenerateVideo, entered with an error of message m
generateCatch(r, m) ==
  /\ errorMessage' = CaughtMessage(m)
  /\ appState' = "error"
  /\ runs' = [runs EXCEPT ![r] = Returned("error", m)]

\* lines 44-50: the synchronous head of the handler, up to the first await
handleGenerateVideo(topic) ==
  /\ appState' = "loading"
  /\ currentTopic' = topic
  /\ title' = EmptyStr
  /\ hashtags' = EmptyStr
  /\ runs' = Append(runs, [pc |-> "script", topic |-> topic, n |-> 0, imgs |-> <<>>,
                        err |-> ""])
  /\ UNCHANGED <<errorMessage, scenes, audioUrl, persistence>>

\* await generateScriptFromTopic resolves; generateTitleAndHashtags is called
scriptDone(r) ==
  /\ runs[r].pc = "script"
  /\ runs' = [runs EXCEPT ![r].pc = "title"]
  /\ UNCHANGED <<ui, result, persistence>>

\* await generateTitleAndHashtags resolves: setTitle, setHashtags
titleDone(r) ==
  /\ runs[r].pc = "title"
  /\ title' = ScriptTitle(r)
  /\ hashtags' = ScriptHashtags(r)
  /\ runs' = [runs EXCEPT ![r].pc = "analyze"]
  /\ UNCHANGED <<ui, scenes, audioUrl, currentTopic, persistence>>

\* lines 66-69: each scene with the image at its own index
finalScenes(r, imgs) ==
  [i \in 1..Len(imgs) |-> Scene(SceneDescription(r, i), imgs[i])]

\* await analyzeScriptForScenes resolves with n scenes: one image request per
\* scene is launched; with none, Promise.all([]) resolves at once
analyzeDone(r, n) ==
  /\ runs[r].pc = "analyze"
  /\ IF n = 0
     THEN /\ scenes' = finalScenes(r, <<>>)
          /\ runs' = [runs EXCEPT ![r].pc = "voiceover"]
     ELSE /\ scenes' = scenes
          /\ runs' = [runs EXCEPT ![r].pc = "images", ![r].n = n,
                                  ![r].imgs = [i \in 1..n |-> Pending]]
  /\ UNCHANGED <<ui, audioUrl, currentTopic, title, hashtags, persistence>>

\* a join that records the image and never resumes the run
imageDone_NoResume(r, i) ==
  /\ runs[r].pc = "images"
  /\ i \in 1..runs[r].n
  /\ runs[r].imgs[i] = Pending
  /\ runs' = [runs EXCEPT ![r].imgs[i] = ImageFor(SceneDescription(r, i))]
  /\ UNCHANGED <<ui, result, persistence>>

\* image request i of run r resolves; Promise.all resolves with the last one
imageDone(r, i) ==
  /\ runs[r].pc = "images"
  /\ i \in 1..runs[r].n
  /\ runs[r].imgs[i] = Pending
  /\ LET imgs == [runs[r].imgs EXCEPT ![i] = ImageFor(SceneDescription(r, i))]
     IN IF \A j \in 1..runs[r].n : imgs[j] # Pending
        THEN /\ scenes' = finalScenes(r, imgs)
             /\ runs' = [runs EXCEPT ![r].pc = "voiceover", ![r].imgs = imgs]
        ELSE /\ scenes' = scenes
             /\ runs' = [runs EXCEPT ![r].imgs = imgs]
  /\ UNCHANGED <<ui, audioUrl, currentTopic, title, hashtags, persistence>>

\* image request i of run r rejects: Promise.all rejects with its error
imageFail(r, i, m) ==
  /\ runs[r].pc = "images"
  /\ i \in 1..runs[r].n
  /\ runs[r].imgs[i] = Pending
  /\ generateCatch(r, m)
  /\ UNCHANGED <<result, persistence>>

\* await generateVoiceover resolves; decode and decodeAudioData are called
voiceoverDone(r) ==
  /\ runs[r].pc = "voiceover"
  /\ runs' = [runs EXCEPT ![r].pc = "decode"]
  /\ UNCHANGED <<ui, result, persistence>>

\* await decodeAudioData resolves: setAudioUrl(url), setAppState('preview')
decodeDone(r) ==
  /\ runs[r].pc = "decode"
  /\ audioUrl' = BlobUrl(VoicePayload(r))
  /\ appState' = "preview"
  /\ runs' = [runs EXCEPT ![r] = Returned("preview", "")]
  /\ UNCHANGED <<errorMessage, scenes, currentTopic, title, hashtags, persistence>>

\* the awaited call of a stage other than the image fan-out throws
stageFail(r, m) ==
  /\ runs[r].pc \in {"script", "title", "analyze", "voiceover", "decode"}
  /\ generateCatch(r, m)
  /\ UNCHANGED <<result, persistence>>

\* ------------------------------------------------------------- handleRestart
handleRestart ==
  /\ appState' = "idle"
  /\ scenes' = <<>>
  /\ audioUrl' = NoUrl
  /\ errorMessage' = ""
  /\ currentTopic' = EmptyStr
  /\ title' = EmptyStr
  /\ hashtags' = EmptyStr
  /\ UNCHANGED <<runs, persistence>>


\* ------------------------------------------------------------- handleSaveProject
\* what a persistence handler leaves alone besides its own calls
generation == <<scenes, audioUrl, currentTopic, title, hashtags, runs>>

\* Date.now() + Math.floor(Math.random() * 1000), Date.now() returning t
NewId(t, rand) == t + rand

NoSave == [pc |-> "done", topic |-> EmptyStr, scenes |-> <<>>, audioUrl |-> NoUrl,
           title |-> EmptyStr, hashtags |-> EmptyStr, projects |-> <<>>,
           proj |-> NoProject]

\* the precondition without its check of currentTopic
SavePrecondition_NoTopic ==
  Len(scenes) # 0 /\ audioUrl # NoUrl /\ dbReady

\* line 108: the handler goes on only if this holds
SavePrecondition ==
  Len(scenes) # 0 /\ audioUrl # NoUrl /\ currentTopic # EmptyStr /\ dbReady

\* lines 107-111: the precondition, then blobUrlToBase64(audioUrl) is awaited;
\* the closure holds the state of the render the handler belongs to
handleSaveProject ==
  /\ saveCalls' = saveCalls + 1
  /\ IF SavePrecondition
     THEN saves' = Append(saves,
            [pc |-> "encode", topic |-> currentTopic, scenes |-> scenes,
             audioUrl |-> audioUrl, title |-> title, hashtags |-> hashtags,
             projects |-> projects, proj |-> NoProject])
     ELSE saves' = saves
  /\ UNCHANGED <<ui, generation, projects, dbReady, downloads, db, init, deletes, imports,
                 deleteCalls, now>>

\* lines 112-119: the record handleSaveProject builds
saveNewProject(s, t, rand) ==
  SavedProject(NewId(t, rand), s.topic, s.scenes, blobUrlToBase64(s.audioUrl),
               s.title, s.hashtags)

\* await blobUrlToBase64 resolves: newProject is built, saveProjectToDB is issued
saveEncoded(k, t, rand) ==
  /\ saves[k].pc = "encode"
  /\ now' = t
  /\ saves' = [saves EXCEPT ![k] =
                 [NoSave EXCEPT !.pc = "put", !.projects = saves[k].projects,
                                !.proj = saveNewProject(saves[k], t, rand)]]
  /\ UNCHANGED <<ui, generation, projects, dbReady, downloads, db, init, deletes, imports,
                 saveCalls, deleteCalls>>

\* lines 121-122: [...projects, newProject] over the closure's projects
saveUpdatedProjects(s) == Append(s.projects, s.proj)

\* await saveProjectToDB resolves: the record is stored, setProjects
savePutDone(k) ==
  /\ saves[k].pc = "put"
  /\ StoreOpen
  /\ db' = StorePut(db, saves[k].proj)
  /\ projects' = saveUpdatedProjects(saves[k])
  /\ saves' = [saves EXCEPT ![k] = NoSave]
  /\ UNCHANGED <<ui, generation, dbReady, downloads, init, deletes, imports,
                 saveCalls, deleteCalls, now>>

\* await saveProjectToDB rejects: the catch block of handleSaveProject
savePutFail(k) ==
  /\ saves[k].pc = "put"
  /\ errorMessage' = SaveError
  /\ appState' = "error"
  /\ saves' = [saves EXCEPT ![k] = [NoSave EXCEPT !.pc = "failed"]]
  /\ UNCHANGED <<generation, projects, dbReady, downloads, db, init, deletes, imports,
                 saveCalls, deleteCalls, now>>

\* ------------------------------------------------------------- handleLoadProject
\* a load that sets the scenes before it decodes the audio text
handleLoadProject_ScenesFirst(project) ==
  /\ scenes' = project.scenes
  /\ IF base64Decodes(project.audioData)
     THEN /\ audioUrl' = base64ToBlobUrl(project.audioData)
          /\ currentTopic' = project.topic
          /\ title' = OrEmpty(project.title)
          /\ hashtags' = OrEmpty(project.hashtags)
          /\ appState' = "preview"
          /\ errorMessage' = errorMessage
     ELSE /\ errorMessage' = LoadError
          /\ appState' = "error"
          /\ UNCHANGED <<audioUrl, currentTopic, title, hashtags>>
  /\ UNCHANGED <<runs, persistence>>

\* lines 130-144: base64ToBlobUrl throws before any cell is set
handleLoadProject(project) ==
  /\ IF base64Decodes(project.audioData)
     THEN /\ scenes' = project.scenes
          /\ audioUrl' = base64ToBlobUrl(project.audioData)
          /\ currentTopic' = project.topic
          /\ title' = OrEmpty(project.title)
          /\ hashtags' = OrEmpty(project.hashtags)
          /\ appState' = "preview"
          /\ errorMessage' = errorMessage
     ELSE /\ errorMessage' = LoadError
          /\ appState' = "error"
          /\ UNCHANGED result
  /\ UNCHANGED <<runs, persistence>>

\* ------------------------------------------------------------- handleDeleteProject
NoDelete == [pc |-> "done", id |-> Missing, projects |-> <<>>]

\* line 147: the handler goes on only if this holds
DeletePrecondition == dbReady

\* lines 146-149: the precondition, then deleteProjectFromDB(id) is issued
handleDeleteProject(id) ==
  /\ deleteCalls' = deleteCalls + 1
  /\ IF DeletePrecondition
     THEN deletes' = Append(deletes, [pc |-> "delete", id |-> id, projects |-> projects])
     ELSE deletes' = deletes
  /\ UNCHANGED <<ui, generation, projects, dbReady, downloads, db, init, saves, imports,
                 saveCalls, now>>

\* line 150: projects.filter(p => p.id !== id) over the closure's projects
deleteUpdatedProjects(d) == SelectSeq(d.projects, LAMBDA p : p.id # d.id)

\* await deleteProjectFromDB resolves: the record is gone, setProjects
deleteDone(k) ==
  /\ deletes[k].pc = "delete"
  /\ StoreOpen
  /\ db' = StoreDelete(db, deletes[k].id)
  /\ projects' = deleteUpdatedProjects(deletes[k])
  /\ deletes' = [deletes EXCEPT ![k] = NoDelete]
  /\ UNCHANGED <<ui, generation, dbReady, downloads, init, saves, imports,
                 saveCalls, deleteCalls, now>>

\* the catch block of a delete that took the entry off the list before the store
\* answered
deleteFail_Optimistic(k) ==
  /\ deletes[k].pc = "delete"
  /\ errorMessage' = DeleteError
  /\ appState' = "error"
  /\ projects' = deleteUpdatedProjects(deletes[k])
  /\ deletes' = [deletes EXCEPT ![k] = [NoDelete EXCEPT !.pc = "failed"]]
  /\ UNCHANGED <<generation, dbReady, downloads, db, init, saves, imports,
                 saveCalls, deleteCalls, now>>

\* await deleteProjectFromDB rejects: the catch block of handleDeleteProject
deleteFail(k) ==
  /\ deletes[k].pc = "delete"
  /\ errorMessage' = DeleteError
  /\ appState' = "error"
  /\ deletes' = [deletes EXCEPT ![k] = [NoDelete EXCEPT !.pc = "failed"]]
  /\ UNCHANGED <<generation, projects, dbReady, downloads, db, init, saves, imports,
                 saveCalls, deleteCalls, now>>

\* ------------------------------------------------------------- handleExportProject
\* line 161: JSON.stringify(project, null, 2), as JSON.parse reads it back: every
\* field of the record, the id included, with its value
JSONstringify(p) ==
  [parses |-> TRUE, id |-> p.id, topic |-> p.topic, hasScenes |-> TRUE,
   scenes |-> p.scenes, audioData |-> p.audioData, title |-> p.title,
   hashtags |-> p.hashtags]

\* lines 159-177: the text is handed to the browser as a download (the file name,
\* lines 166-167, is not modelled); nothing in the try block throws for a record
\* of strings, numbers and scenes
handleExportProject(project) ==
  /\ downloads' = downloads \cup {JSONstringify(project)}
  /\ UNCHANGED <<ui, generation, projects, dbReady, db, init, saves, deletes, imports,
                 saveCalls, deleteCalls, now>>

\* ------------------------------------------------------------- handleImportProject
NoImport == [pc |-> "done", file |-> NotJsonFile, proj |-> NoProject]

\* lines 179-222: a file was chosen; reader.readAsText(file) is started
handleImportProject(file) ==
  /\ imports' = Append(imports, [pc |-> "reading", file |-> file, proj |-> NoProject])
  /\ UNCHANGED <<ui, generation, projects, dbReady, downloads, db, init, saves, deletes,
                 saveCalls, deleteCalls, now>>

\* reader.onerror
importReadError(k) ==
  /\ imports[k].pc = "reading"
  /\ errorMessage' = ImportReadError
  /\ appState' = "error"
  /\ imports' = [imports EXCEPT ![k] = [NoImport EXCEPT !.pc = "failed"]]
  /\ UNCHANGED <<generation, projects, dbReady, downloads, db, init, saves, deletes,
                 saveCalls, deleteCalls, now>>

\* the validation without its check of audioData
importValid_NoAudioCheck(f) ==
  f.parses /\ Truthy(f.topic) /\ f.hasScenes

\* line 192: the parsed object passes the validation
importValid(f) ==
  f.parses /\ Truthy(f.topic) /\ f.hasScenes /\ TruthyAudioData(f.audioData)

\* an import that keeps nothing of the file's title and hashtags
importNewProject_NoTitle(f, t, rand) ==
  SavedProject(NewId(t, rand), f.topic, f.scenes, f.audioData, EmptyStr, EmptyStr)

\* lines 196-203: the record handleImportProject builds
importNewProject(f, t, rand) ==
  SavedProject(NewId(t, rand), f.topic, f.scenes, f.audioData,
               OrEmpty(f.title), OrEmpty(f.hashtags))

\* reader.onload: parse, validate, build newProject, issue saveProjectToDB;
\* a throw goes to the catch block
importOnload(k, t, rand) ==
  /\ imports[k].pc = "reading"
  /\ IF importValid(imports[k].file)
     THEN /\ imports' = [imports EXCEPT ![k] =
                 [NoImport EXCEPT !.pc = "put",
                                  !.proj = importNewProject(imports[k].file, t, rand)]]
          /\ now' = t
          /\ UNCHANGED ui
     ELSE /\ errorMessage' = IF imports[k].file.parses THEN ImportInvalid
                             ELSE ImportSyntaxError
          /\ appState' = "error"
          /\ imports' = [imports EXCEPT ![k] = [NoImport EXCEPT !.pc = "failed"]]
          /\ now' = now
  /\ UNCHANGED <<generation, projects, dbReady, downloads, db, init, saves, deletes,
                 saveCalls, deleteCalls>>

\* await saveProjectToDB resolves: setProjects(prev => [...prev, newProject])
importPutDone(k) ==
  /\ imports[k].pc = "put"
  /\ StoreOpen
  /\ db' = StorePut(db, imports[k].proj)
  /\ projects' = Append(projects, imports[k].proj)
  /\ imports' = [imports EXCEPT ![k] = NoImport]
  /\ UNCHANGED <<ui, generation, dbReady, downloads, init, saves, deletes,
                 saveCalls, deleteCalls, now>>

\* await saveProjectToDB rejects: the catch block of reader.onload
importPutFail(k) ==
  /\ imports[k].pc = "put"
  /\ errorMessage' = ImportPutError
  /\ appState' = "error"
  /\ imports' = [imports EXCEPT ![k] = [NoImport EXCEPT !.pc = "failed"]]
  /\ UNCHANGED <<generation, projects, dbReady, downloads, db, init, saves, deletes,
                 saveCalls, deleteCalls, now>>

\* ------------------------------------------------------------- renderContent
\* which child renderContent mounts, and so which callbacks the user can reach
ScriptInputShown == appState = "idle"
VideoPreviewShown == appState = "preview"
ErrorShown == appState = "error"
\* ScriptInput mounted without the disabled prop
ScriptInputDisabled_Never == FALSE

\* line 254: disabled={!dbReady}
ScriptInputDisabled == ~dbReady

\* ScriptInput (not in src/): `disabled` switches off the generate button and the
\* import control, "any persistence UI affordance must be disabled until readiness
\* is confirmed"
ScriptInputEnabled == ~ScriptInputDisabled

\* the topic handleGenerateVideo can be called with for the next run: empty, or a
\* text of that run's own
Topics == {EmptyStr, Len(runs) + 1}
\* ScriptInput (not in src/) is taken to submit only a topic the user has typed
TypedTopics == Topics \ {EmptyStr}
\* what Date.now() can return next: it never runs backwards
Clock == now..MaxClock
\* every id a record can have
Ids == 0..(MaxClock + MaxRand) \cup IdsOf(UNION InitialStores)

\* resumptions of handlers in flight
Resume ==
  \/ initDBDone
  \/ initDBFail
  \/ getProjectsDone
  \/ getProjectsFail
  \/ \E r \in RunIds : scriptDone(r)
  \/ \E r \in RunIds : titleDone(r)
  \/ \E r \in RunIds, n \in 0..MaxScenes : analyzeDone(r, n)
  \/ \E r \in RunIds, i \in 1..MaxScenes : imageDone(r, i)
  \/ \E r \in RunIds, i \in 1..MaxScenes, m \in ErrorMessages : imageFail(r, i, m)
  \/ \E r \in RunIds : voiceoverDone(r)
  \/ \E r \in RunIds : decodeDone(r)
  \/ \E r \in RunIds, m \in ErrorMessages : stageFail(r, m)
  \/ \E k \in 1..Len(saves), t \in Clock, rand \in 0..MaxRand : saveEncoded(k, t, rand)
  \/ \E k \in 1..Len(saves) : savePutDone(k)
  \/ \E k \in 1..Len(saves) : savePutFail(k)
  \/ \E k \in 1..Len(deletes) : deleteDone(k)
  \/ \E k \in 1..Len(deletes) : deleteFail(k)
  \/ \E k \in 1..Len(imports) : importReadError(k)
  \/ \E k \in 1..Len(imports), t \in Clock, rand \in 0..MaxRand : importOnload(k, t, rand)
  \/ \E k \in 1..Len(imports) : importPutDone(k)
  \/ \E k \in 1..Len(imports) : importPutFail(k)

\* what the user can do whatever ScriptInput makes of `disabled`
Clicks ==
  \/ (VideoPreviewShown \/ ErrorShown) /\ handleRestart
  \/ VideoPreviewShown /\ MaySave /\ handleSaveProject
  \/ ScriptInputShown /\ \E i \in 1..Len(projects) : handleLoadProject(projects[i])
  \/ /\ ScriptInputShown /\ MayExport
     /\ \E i \in 1..Len(projects) : handleExportProject(projects[i])

\* the user's actions on ScriptInput, with `disabled` honoured
Next ==
  \/ Resume
  \/ Clicks
  \/ /\ ScriptInputShown /\ ScriptInputEnabled /\ MayGenerate
     /\ \E t \in TypedTopics : handleGenerateVideo(t)
  \/ /\ ScriptInputShown /\ ScriptInputEnabled /\ MayImport
     /\ \E f \in ExternalFiles \cup downloads : handleImportProject(f)
  \/ /\ ScriptInputShown /\ MayDelete
     /\ \E i \in 1..Len(projects) : handleDeleteProject(projects[i].id)

Spec == Init /\ [][Next]_vars

\* ScriptInput may call any callback it was given, with any argument
NextUngated ==
  \/ Resume
  \/ Clicks
  \/ ScriptInputShown /\ MayGenerate /\ \E t \in Topics : handleGenerateVideo(t)
  \/ /\ ScriptInputShown /\ MayImport
     /\ \E f \in ExternalFiles \cup downloads : handleImportProject(f)
  \/ ScriptInputShown /\ MayDelete /\ \E id \in Ids : handleDeleteProject(id)

SpecUngated == Init /\ [][NextUngated]_vars

\* the generation runs alone, with scene lists up to MaxFanOut: initialize, the
\* runs and handleRestart, no save, load, delete or import
NextGeneration ==
  \/ initDBDone
  \/ initDBFail
  \/ getProjectsDone
  \/ getProjectsFail
  \/ /\ ScriptInputShown /\ ScriptInputEnabled /\ MayGenerate
     /\ \E t \in TypedTopics : handleGenerateVideo(t)
  \/ \E r \in RunIds : scriptDone(r)
  \/ \E r \in RunIds : titleDone(r)
  \/ \E r \in RunIds, n \in 0..MaxFanOut : analyzeDone(r, n)
  \/ \E r \in RunIds, i \in 1..MaxFanOut : imageDone(r, i)
  \/ \E r \in RunIds, i \in 1..MaxFanOut, m \in ErrorMessages : imageFail(r, i, m)
  \/ \E r \in RunIds : voiceoverDone(r)
  \/ \E r \in RunIds : decodeDone(r)
  \/ \E r \in RunIds, m \in ErrorMessages : stageFail(r, m)
  \/ (VideoPreviewShown \/ ErrorShown) /\ handleRestart

SpecGeneration == Init /\ [][NextGeneration]_vars

\* the resumptions of run r: the call it awaits returns or throws
RunStep(r) ==
  /\ r \in RunIds
  /\ \/ scriptDone(r)
     \/ titleDone(r)
     \/ \E n \in 0..MaxFanOut : analyzeDone(r, n)
     \/ \E i \in 1..MaxFanOut : imageDone(r, i)
     \/ \E i \in 1..MaxFanOut, m \in ErrorMessages : imageFail(r, i, m)
     \/ voiceoverDone(r)
     \/ decodeDone(r)
     \/ \E m \in ErrorMessages : stageFail(r, m)

\* every remote call and every image request eventually returns or throws, and
\* the event loop then resumes the run that awaits it
FairGeneration == SpecGeneration /\ \A r \in 1..MaxRuns : WF_vars(RunStep(r))

\* the user starts no further call of generate or save after MaxResultCalls
MayStartResult == NumInFlight < MaxInFlight /\ NumCalls < MaxResultCalls

\* the handlers that write or read the result cells: initialize, the runs,
\* handleRestart, handleLoadProject and handleSaveProject, no delete, export or
\* import
NextResult ==
  \/ initDBDone
  \/ initDBFail
  \/ getProjectsDone
  \/ getProjectsFail
  \/ /\ ScriptInputShown /\ ScriptInputEnabled
     /\ Len(runs) < MaxRuns /\ MayStartResult
     /\ \E t \in TypedTopics : handleGenerateVideo(t)
  \/ \E r \in RunIds : scriptDone(r)
  \/ \E r \in RunIds : titleDone(r)
  \/ \E r \in RunIds, n \in 0..MaxScenes : analyzeDone(r, n)
  \/ \E r \in RunIds, i \in 1..MaxScenes : imageDone(r, i)
  \/ \E r \in RunIds, i \in 1..MaxScenes, m \in ErrorMessages : imageFail(r, i, m)
  \/ \E r \in RunIds : voiceoverDone(r)
  \/ \E r \in RunIds : decodeDone(r)
  \/ \E r \in RunIds, m \in ErrorMessages : stageFail(r, m)
  \/ (VideoPreviewShown \/ ErrorShown) /\ handleRestart
  \/ ScriptInputShown /\ \E i \in 1..Len(projects) : handleLoadProject(projects[i])
  \/ /\ VideoPreviewShown /\ saveCalls < MaxSaves /\ MayStartResult
     /\ handleSaveProject
  \/ \E k \in 1..Len(saves), t \in Clock, rand \in 0..MaxRand : saveEncoded(k, t, rand)
  \/ \E k \in 1..Len(saves) : savePutDone(k)
  \/ \E k \in 1..Len(saves) : savePutFail(k)

SpecResult == Init /\ [][NextResult]_vars


\* ============================================================= claims
\* no save, delete or import is waiting on an await
PersistenceIdle ==
  /\ \A k \in 1..Len(saves) : saves[k].pc \in Returns
  /\ \A k \in 1..Len(deletes) : deletes[k].pc \in Returns
  /\ \A k \in 1..Len(imports) : imports[k].pc \in Returns

\* C1: whenever the initial load has completed and no save, delete or import is
\* in flight, the ids of the in-memory projects list are exactly the ids of the
\* records in the durable store.  (Stated for the behaviours whose initial load
\* succeeded; the claim also covers the others.)
C1_CacheConsistent ==
  (init.pc = "done" /\ PersistenceIdle) => ListIds(projects) = IdsOf(db)


\* C2: in every state where appState is 'preview', scenes is non-empty and
\* audioUrl is non-empty.
C2_PreviewHasResult ==
  appState = "preview" => Len(scenes) # 0 /\ audioUrl # NoUrl

\* C3: a step that leaves appState 'error' goes to 'idle' and is handleRestart:
\* no handler in flight completes in it.
C3_ErrorLeftOnlyByRestart ==
  [][(appState = "error" /\ appState' # "error")
       => (appState' = "idle" /\ UNCHANGED ops)]_vars

\* C4: at most one handleGenerateVideo run is in flight at any time.
C4_OneGenerationInFlight ==
  Cardinality({r \in RunIds : InFlight(r)}) <= 1


\* a save, delete or import call is waiting on a store operation it issued
StoreOpIssued ==
  \/ \E k \in 1..Len(saves) : saves[k].pc = "put"
  \/ \E k \in 1..Len(deletes) : deletes[k].pc = "delete"
  \/ \E k \in 1..Len(imports) : imports[k].pc = "put"

C6_UniqueIds ==
  /\ \A k \in 1..Len(saves) :
       saves[k].pc = "put"
         => /\ saves[k].proj.id \notin IdsOf(db) \cup ListIds(projects)
            /\ \A j \in 1..Len(imports) :
                 imports[j].pc = "put" => imports[j].proj.id # saves[k].proj.id
            /\ \A j \in 1..Len(saves) :
                 (j # k /\ saves[j].pc = "put") => saves[j].proj.id # saves[k].proj.id
  /\ \A k \in 1..Len(imports) :
       imports[k].pc = "put"
         => /\ imports[k].proj.id \notin IdsOf(db) \cup ListIds(projects)
            /\ \A j \in 1..Len(imports) :
                 (j # k /\ imports[j].pc = "put")
                   => imports[j].proj.id # imports[k].proj.id

\* C7: the projects list changes only in a step in which a store operation
\* completes successfully (the list of initialize, the put of save or import,
\* the delete of delete); a step in which the put or the delete fails leaves
\* the list as it was and sets appState to 'error'.
C7_ListChangesOnStoreSuccess ==
  [][/\ projects' # projects
          => \/ init.pc = "getProjects" /\ init'.pc = "done"
             \/ \E k \in 1..Len(saves) :
                  saves[k].pc = "put" /\ saves'[k].pc = "done"
             \/ \E k \in 1..Len(deletes) :
                  deletes[k].pc = "delete" /\ deletes'[k].pc = "done"
             \/ \E k \in 1..Len(imports) :
                  imports[k].pc = "put" /\ imports'[k].pc = "done"
     /\ \A k \in 1..Len(saves) :
          (saves[k].pc = "put" /\ saves'[k].pc = "failed")
            => (projects' = projects /\ appState' = "error")
     /\ \A k \in 1..Len(deletes) :
          (deletes[k].pc = "delete" /\ deletes'[k].pc = "failed")
            => (projects' = projects /\ appState' = "error")
     /\ \A k \in 1..Len(imports) :
          (imports[k].pc = "put" /\ imports'[k].pc = "failed")
            => (projects' = projects /\ appState' = "error")
    ]_vars

\* C7: a delete has failed and the list still holds its entries
C7_Witness ==
  /\ appState = "error"
  /\ errorMessage = DeleteError
  /\ \E k \in 1..Len(deletes) : deletes[k].pc = "failed"
  /\ Len(projects) # 0
  /\ ListIds(projects) = IdsOf(db)

\* the effects a handler that returns at its precondition must not have
NoEffect ==
  UNCHANGED <<saves, deletes, imports, init, runs, db, projects, appState,
              errorMessage>>

\* C8: an invocation of handleSaveProject with empty scenes, empty audioUrl,
\* empty currentTopic or dbReady false, and an invocation of
\* handleDeleteProject with dbReady false, issue no store operation, start no
\* call and leave the projects list, appState and errorMessage unchanged.
C8_SilentNoOp ==
  [][/\ (saveCalls' # saveCalls
           /\ (Len(scenes) = 0 \/ audioUrl = NoUrl \/ currentTopic = EmptyStr
                 \/ ~dbReady))
          => NoEffect
     /\ (deleteCalls' # deleteCalls /\ ~dbReady) => NoEffect
    ]_vars

\* C8: save was invoked in the preview of a result with an empty topic, and
\* delete before the store was ready, and both returned at the precondition
C8_Witness ==
  /\ saveCalls = 1 /\ Len(saves) = 0
  /\ deleteCalls = 1 /\ Len(deletes) = 0
  /\ appState = "preview"
  /\ Len(scenes) # 0 /\ audioUrl # NoUrl /\ currentTopic = EmptyStr

\* a parsed project file in which topic, scenes or audioData is absent
FieldMissing(f) ==
  f.parses /\ (f.topic = Missing \/ ~f.hasScenes \/ f.audioData = NoAudioData)

\* C9: the import of a file in which topic, scenes or audioData is missing ends
\* in its catch block: appState becomes 'error', no put is issued, and the
\* store and the projects list stay as they were.
C9_ImportValidation ==
  [][\A k \in 1..Len(imports) :
       (imports[k].pc = "reading" /\ FieldMissing(imports[k].file)
          /\ imports'[k].pc # "reading")
         => /\ imports'[k].pc = "failed"
            /\ appState' = "error"
            /\ errorMessage' \in {ImportInvalid, ImportReadError}
            /\ projects' = projects
            /\ db' = db
    ]_vars

\* C9: an import was rejected by the validation
C9_Witness ==
  /\ appState = "error"
  /\ errorMessage = ImportInvalid
  /\ \E k \in 1..Len(imports) : imports[k].pc = "failed"

\* C10 as claimed: when a stage of a run throws, the run stops and appState
\* becomes 'error' with errorMessage the thrown error's message, verbatim.
C10_MessageVerbatim ==
  [][\A r \in RunIds :
       (InFlight(r) /\ runs'[r].pc = "error")
         => (appState' = "error" /\ errorMessage' = runs'[r].err)]_vars

\* C10 as amended: when a stage of a run throws, the run performs no later
\* stage (it has returned, and changes none of the result cells in that step or
\* later), and appState becomes 'error' with errorMessage the thrown error's
\* message if that is non-empty, and 'An unknown error occurred.' if it is empty.
C10_MessageOrFallback ==
  [][\A r \in RunIds :
       /\ (InFlight(r) /\ runs'[r].pc = "error")
            => /\ appState' = "error"
               /\ errorMessage' = IF runs'[r].err # "" THEN runs'[r].err
                                  ELSE "An unknown error occurred."
               /\ UNCHANGED result
       /\ runs[r].pc = "error" => runs'[r] = runs[r]
    ]_vars

\* C10: a stage of a run has thrown "rate limited" and the app shows it
C10_Witness ==
  /\ appState = "error"
  /\ errorMessage = "rate limited"
  /\ \E r \in RunIds : runs[r].pc = "error" /\ runs[r].err = "rate limited"

\* C11: a generation run that fails at any stage leaves no result set: in the
\* step in which a run ends in 'error', scenes and audioUrl are empty afterwards.
C11_FailedRunNoResult ==
  [][\A r \in RunIds :
       (InFlight(r) /\ runs'[r].pc = "error")
         => (scenes' = <<>> /\ audioUrl' = NoUrl)]_vars

\* the image requests of run r that have not settled
PendingImages(r) == {i \in 1..Len(runs[r].imgs) : runs[r].imgs[i] = Pending}

\* C12: the image fan-out is an all-or-nothing join: when the analysis returns
\* N scenes, N image requests are launched, all pending; the run leaves the
\* fan-out (to the voiceover stage or to its catch block) only in the step in
\* which the last pending request settles; and a step in which an image request
\* fails ends the run in 'error' and sets no scenes.
C12_AllOrNothingJoin ==
  [][\A r \in RunIds :
       /\ (runs[r].pc = "analyze" /\ runs'[r].pc = "images")
            => (runs'[r].n >= 1 /\ PendingImages(r)' = 1..runs'[r].n)
       /\ (runs[r].pc = "images" /\ runs'[r].pc # "images")
            => Cardinality(PendingImages(r)) = 1
       /\ (runs[r].pc = "images" /\ runs'[r].pc = "error")
            => (appState' = "error" /\ scenes' = scenes)
    ]_vars

\* the scenes a run whose analysis returned n scenes assembles
RunScenes(r, n) ==
  [i \in 1..n |-> Scene(SceneDescription(r, i), ImageFor(SceneDescription(r, i)))]

\* C13: when a run ends in 'preview', the state carries that run's result:
\* scenes has one entry per analyzed scene, in the analysis order, entry i with
\* the image returned for scene i, and topic, title and hashtags are that run's.
C13_PreviewCarriesRunResult ==
  [][\A r \in RunIds :
       (InFlight(r) /\ runs'[r].pc = "preview")
         => /\ scenes' = RunScenes(r, runs[r].n)
            /\ currentTopic' = r
            /\ title' = ScriptTitle(r)
            /\ hashtags' = ScriptHashtags(r)
    ]_vars

\* C14: a call of handleLoadProject issues no store operation and leaves the
\* projects list as it was; when the stored audio text cannot be decoded, the
\* call sets appState to 'error' with the load message; and the step that shows
\* the load message leaves scenes, audioUrl, topic, title and hashtags, the
\* store and the list as they were.
C14_LoadFrame ==
  [][/\ \A i \in 1..Len(projects) :
          handleLoadProject(projects[i])
            => /\ UNCHANGED <<projects, db, init, saves, deletes, imports>>
               /\ ~base64Decodes(projects[i].audioData)
                    => (appState' = "error" /\ errorMessage' = LoadError)
     /\ (errorMessage # LoadError /\ errorMessage' = LoadError)
          => /\ appState' = "error"
             /\ UNCHANGED result
             /\ UNCHANGED <<projects, db, init, saves, deletes, imports>>
    ]_vars

\* C14: the load of a listed project whose audio text does not decode has failed,
\* and nothing of a result is set
C14_Witness ==
  /\ appState = "error"
  /\ errorMessage = LoadError
  /\ \E i \in 1..Len(projects) : ~base64Decodes(projects[i].audioData)
  /\ scenes = <<>> /\ audioUrl = NoUrl /\ currentTopic = EmptyStr

\* two records agree in every field but the id
SameContent(p, q) ==
  /\ p.topic = q.topic
  /\ p.scenes = q.scenes
  /\ p.audioData = q.audioData
  /\ p.title = q.title
  /\ p.hashtags = q.hashtags

\* the projects of the store and of the list
KnownProjects == db \cup {projects[i] : i \in 1..Len(projects)}

\* C15: export then import round-trips: when the text an export wrote is
\* imported and read, the import passes the validation and issues the put of a
\* record that equals every stored or listed project that exports to this text
\* in topic, scenes, audioData, title and hashtags; and when that put completes
\* the record is in the store.
C15_ExportImportRoundTrip ==
  [][\A k \in 1..Len(imports) :
       /\ (/\ imports[k].pc = "reading"
           /\ imports[k].file \in downloads
           /\ imports'[k].pc # "reading"
           /\ ~(imports'[k].pc = "failed" /\ errorMessage' = ImportReadError))
            => /\ imports'[k].pc = "put"
               /\ \A p \in KnownProjects :
                    JSONstringify(p) = imports[k].file
                      => SameContent(imports'[k].proj, p)
       /\ (imports[k].pc = "put" /\ imports'[k].pc = "done")
            => imports[k].proj \in db'
    ]_vars

\* C15: a listed project was exported, the text imported, and the store holds
\* the project and a second record equal to it in every field but the id
C15_Witness ==
  /\ \E k \in 1..Len(imports) : imports[k].pc = "done"
  /\ \E p \in db, q \in db :
       /\ p.id # q.id
       /\ JSONstringify(p) \in downloads
       /\ SameContent(p, q)
       /\ Truthy(p.title)

\* C16: the delete of an id that is in neither the store nor the list is a
\* no-op: when a delete completes whose id is not in the store, not in the list
\* and was not in the list when the handler was called, the list, appState and
\* errorMessage stay as they were.
C16_DeleteAbsentNoOp ==
  [][\A k \in 1..Len(deletes) :
       (/\ deletes[k].pc = "delete" /\ deletes'[k].pc = "done"
        /\ deletes[k].id \notin IdsOf(db) \cup ListIds(projects)
        /\ deletes[k].id \notin ListIds(deletes[k].projects))
         => (projects' = projects /\ UNCHANGED ui)
    ]_vars

\* what a record holds besides its id
Content(p) ==
  [topic |-> p.topic, scenes |-> p.scenes, audioData |-> p.audioData,
   title |-> p.title, hashtags |-> p.hashtags]

\* the result of run r, its analysis having returned n scenes, as save records it
RunContent(r, n) ==
  [topic |-> r, scenes |-> RunScenes(r, n),
   audioData |-> blobUrlToBase64(BlobUrl(VoicePayload(r))),
   title |-> ScriptTitle(r), hashtags |-> ScriptHashtags(r)]

\* what one generation run, or one project a load can show, holds
CoherentContents ==
  {RunContent(r, n) : r \in 1..MaxRuns, n \in 1..MaxScenes}
    \cup {Content(p) : p \in UNION InitialStores}
    \cup {Content(importNewProject(f, 0, 0)) : f \in {g \in ExternalFiles : importValid(g)}}

\* C17: every record written by save is coherent: its topic, scenes, audioData,
\* title and hashtags are those of one generation run or of one loaded project.
C17_SavedRecordCoherent ==
  \A k \in 1..Len(saves) :
    saves[k].pc = "put" => Content(saves[k].proj) \in CoherentContents

\* C18: every generation run terminates: a run in flight eventually returns,
\* the step in which it returns sets appState to 'preview' or to 'error', and
\* the app does not stay in 'loading' forever.
C18_RunTerminates ==
  /\ \A r \in 1..MaxRuns :
       (r \in RunIds /\ InFlight(r)) ~> (r \in RunIds /\ ~InFlight(r))
  /\ [][\A r \in RunIds :
          (InFlight(r) /\ ~InFlight(r)') => appState' \in {"preview", "error"}]_vars
  /\ (appState = "loading") ~> (appState # "loading")

\* C18: a run whose analysis returned MaxFanOut scenes has gone through the join
\* of its image requests and returned with appState 'preview'
C18_Witness ==
  /\ appState = "preview"
  /\ \E r \in RunIds : runs[r].pc = "preview"
  /\ Len(scenes) = MaxFanOut
  /\ audioUrl # NoUrl

====
